---- MODULE Spec2Model ----
(***************************************************************************)
(* UrbanTaskManager (src/app.py): the greedy assignment engine and the two *)
(* request handlers that trigger it, add_task and run_scheduler.           *)
(*                                                                         *)
(* The store is the three tables Resource, Task and Assignment.  Every     *)
(* query and every commit of the code is one atomic step; a request        *)
(* handler is a process that walks through greedy_scheduler one store      *)
(* access at a time.  Spec lets the handlers of different requests         *)
(* interleave freely (the code takes no lock); SpecSeq lets a pass start   *)
(* only when no other pass is between its query and its last commit.       *)
(*                                                                         *)
(* Arithmetic: distances are haversine values in units of 0.01 km, scores  *)
(* are exact rationals num/(ScoreDen*capacity); the one input for which   *)
(* float rounding changes a comparison (urgency 10^17) has its float       *)
(* result, HugeScore.                                                      *)
(***************************************************************************)
EXTENDS Integers, Sequences, FiniteSets, TLC

\* ---------------------------------------------------------------- bounds
MaxTasks == 2                 \* add-task requests accepted in a behaviour
MaxCap == 2                   \* capacities of the Resource rows range over 0..MaxCap

Procs == {1, 2}               \* request handlers that may be in flight together
NumRes == 3                   \* Resource rows (seed_data creates three)
Resources == 1..NumRes
\* the bodies of the add-task requests: an urgency and a location.  add_task
\* takes any integer as urgency; 0.6*(urgency/10) is below the initial
\* best_score of -999 from -16650 downwards, hence the two large negatives.
\* HugeUrgency stands for the urgency 10^17 (TLC's integers have 32 bits):
\* an integer the Task.urgency column holds, and so large that the float
\* 0.6*(urgency/10) = 6e15 has a spacing of 1 and absorbs the other two terms.
HugeUrgency == 1000000
TaskInputs ==
    { [urgency |-> 9, loc |-> 1], [urgency |-> 5, loc |-> 2],
      [urgency |-> -20000, loc |-> 1], [urgency |-> -30000, loc |-> 2],
      [urgency |-> HugeUrgency, loc |-> 3] }

\* add-task bodies that lack a required field or hold a non-numeric one
\* (the values as their JSON text)
InvalidInputs ==
    { [title |-> "x", lat |-> "17.4", lon |-> "78.4"],                       \* urgency missing
      [lat |-> "17.4", lon |-> "78.4", urgency |-> "5"],                     \* title missing
      [title |-> "x", lat |-> "north", lon |-> "78.4", urgency |-> "5"],     \* lat not numeric
      [title |-> "x", lat |-> "17.4", lon |-> "78.4", urgency |-> "high"] }  \* urgency not numeric
\* the texts float() and int() accept
NumericText == {"17.4", "78.4", "5"}

\* haversine(task location, resource location), in units of 0.01 km, truncated.
\* Locations: 1 = (17.436, 78.445), 2 = (-17.435, -101.556), 3 = (17.431, 78.449);
\* resources: Team A (17.435, 78.444), Team B (17.430, 78.450), Team C (17.440, 78.430).
haversine(l, r) ==
    CASE l = 1 -> <<15, 85, 165>>[r]
      [] l = 2 -> <<2001508, 2001424, 2001350>>[r]
      [] l = 3 -> <<69, 15, 225>>[r]

\* --------------------------------------------------------------- state
VARIABLES
    capacity,     \* Resource.capacity, by resource id
    tasks,        \* Task rows in id order: [urgency, loc, status]
    assigns,      \* Assignment rows in id order: [task_id, resource_id, eta_minutes]
    pc,           \* per handler: "idle", "query", "scan", "commit", "return", or how the
                  \* request failed: "error" (ZeroDivisionError), "storage_error",
                  \* "crash" (KeyError, TypeError or ValueError in add_task)
    ptasks,       \* per handler: the sorted ids of the tasks read at line 87 (kept until the response)
    ti,           \* per handler: position in ptasks of the task being processed
    ri,           \* per handler: the resource the inner loop is at
    best,         \* per handler: best (0 is None)
    best_score,   \* per handler: best_score as <<num, cap>>, value num/(ScoreDen*cap)
    best_dist,    \* per handler: best_dist (0.01 km; -1 is None)
    out,          \* per handler: out
    nread,        \* history: how many Task rows existed at the latest query of line 87 (-1: no query yet)
    repeat        \* history, per handler: its pass read no Task row that its predecessor had not read

vars == <<capacity, tasks, assigns, pc, ptasks, ti, ri, best, best_score, best_dist, out,
          nread, repeat>>
store == <<capacity, tasks, assigns>>

\* ------------------------------------------------------------ scheduler
\* a count that filters on the wrong column
current_loadByTask(res_id) ==
    Cardinality({i \in 1..Len(assigns) : assigns[i].task_id = res_id})

\* current_load: Assignment.query.filter_by(resource_id=res_id).count()
current_load(res_id) ==
    Cardinality({i \in 1..Len(assigns) : assigns[i].resource_id = res_id})

\* a query that forgets the status filter
AllIds == [i \in 1..Len(tasks) |-> i]

\* Task.query.filter_by(status="pending").all(): ids in the store's order
RECURSIVE PendingUpTo(_)
PendingUpTo(n) ==
    IF n = 0 THEN <<>>
    ELSE IF tasks[n].status = "pending"
         THEN Append(PendingUpTo(n - 1), n)
         ELSE PendingUpTo(n - 1)
PendingIds == PendingUpTo(Len(tasks))

\* sorted(tasks, key=lambda x: -x.urgency): stable, urgency descending
RECURSIVE InsertByUrgency(_, _)
InsertByUrgency(s, x) ==
    IF s = <<>> THEN <<x>>
    ELSE IF tasks[Head(s)].urgency >= tasks[x].urgency
         THEN <<Head(s)>> \o InsertByUrgency(Tail(s), x)
         ELSE <<x>> \o s
RECURSIVE SortedByUrgency(_)
SortedByUrgency(s) ==
    IF s = <<>> THEN <<>>
    ELSE InsertByUrgency(SortedByUrgency(SubSeq(s, 1, Len(s) - 1)), s[Len(s)])

\* a capacity test that is off by one
AtLimitStrict(load, cap) == load > cap

\* line 98: load >= r.capacity
AtLimit(load, cap) == load >= cap

\* score = 0.6*(urgency/10) - 0.3*(d/20) - 0.1*(load/capacity), as <<num, cap>>
ScoreDen == 20000
\* line 102 in real numbers: the score as <<numerator, capacity>>
ScoreExact(u, d, load, cap) == <<1200 * u * cap - 3 * d * cap - 2000 * load, cap>>

\* The floats next to 6e15 are 1 apart, and 0.3*(d/20) + 0.1*(load/capacity)
\* is below 0.5 for every distance under 26 km: for urgency 10^17 the float
\* result of line 102 is 6e15 whatever the resource. HugeScore stands for it.
HugeScore == <<100000000, 1>>

\* line 102 as the float arithmetic computes it
Score(u, d, load, cap) ==
    IF u = HugeUrgency THEN HugeScore ELSE ScoreExact(u, d, load, cap)
\* best_score = -999
InitBestScore == <<-999 * ScoreDen, 1>>
\* score >= best_score: a later resource replaces an equal earlier one
ScoreGe(a, b) == a[1] * b[2] >= b[1] * a[2]

\* score > best_score
ScoreGt(a, b) == a[1] * b[2] > b[1] * a[2]

\* an ETA without the 5 minutes of overhead
EtaNoOverhead(d) == (2 * d) \div 100

\* eta = int(best_dist/30 * 60) + 5
Eta(d) == (2 * d) \div 100 + 5

\* an insert that reuses the primary key of the latest row
AddAssignmentSameKey(a, row) ==
    IF a = <<>> THEN <<row>> ELSE [a EXCEPT ![Len(a)] = row]

\* a commit without db.session.add(a): the row never reaches the table
AddAssignmentNotAdded(a, row) == a

\* lines 111-114: db.session.add(a); db.session.commit()
AddAssignment(a, row) == Append(a, row)

\* a commit that leaves the task's status as it was
MarkAssignedForgotten(ts, t) == ts

\* line 112: t.status = "assigned"
MarkAssigned(ts, t) == [ts EXCEPT ![t].status = "assigned"]

\* an entry that names the loop variable r, the resource iterated last
OutEntryLoopVar(t, r, eta) == [task |-> t, resource |-> NumRes, eta |-> eta]

\* line 116: {"task": t.title, "resource": best.name, "eta": eta}
OutEntry(t, r, eta) == [task |-> t, resource |-> r, eta |-> eta]

\* the loop variables of a handler that is not inside the task loop
NoLocals(p) ==
    /\ ti' = [ti EXCEPT ![p] = 0]
    /\ ri' = [ri EXCEPT ![p] = 0]
    /\ best' = [best EXCEPT ![p] = 0]
    /\ best_score' = [best_score EXCEPT ![p] = InitBestScore]
    /\ best_dist' = [best_dist EXCEPT ![p] = -1]

\* a loop that initialises best once, before the task loop
StartTaskNoReset(p, i) ==
    /\ ti' = [ti EXCEPT ![p] = i]
    /\ ri' = [ri EXCEPT ![p] = 1]
    /\ UNCHANGED <<best, best_score, best_dist>>

\* lines 92-94: best = None, best_score = -999, best_dist = None
StartTask(p, i) ==
    /\ ti' = [ti EXCEPT ![p] = i]
    /\ ri' = [ri EXCEPT ![p] = 1]
    /\ best' = [best EXCEPT ![p] = 0]
    /\ best_score' = [best_score EXCEPT ![p] = InitBestScore]
    /\ best_dist' = [best_dist EXCEPT ![p] = -1]

Init ==
    /\ capacity \in [Resources -> 0..MaxCap]
    /\ tasks = <<>>
    /\ assigns = <<>>
    /\ pc = [p \in Procs |-> "idle"]
    /\ ptasks = [p \in Procs |-> <<>>]
    /\ ti = [p \in Procs |-> 0]
    /\ ri = [p \in Procs |-> 0]
    /\ best = [p \in Procs |-> 0]
    /\ best_score = [p \in Procs |-> InitBestScore]
    /\ best_dist = [p \in Procs |-> -1]
    /\ out = [p \in Procs |-> <<>>]
    /\ nread = -1
    /\ repeat = [p \in Procs |-> FALSE]

\* add_task, lines 165-174: the Task row is inserted and committed
AddTask(p, u, l) ==
    /\ pc[p] = "idle"
    /\ Len(tasks) < MaxTasks
    /\ tasks' = Append(tasks, [urgency |-> u, loc |-> l, status |-> "pending"])
    /\ pc' = [pc EXCEPT ![p] = "query"]
    /\ UNCHANGED <<capacity, assigns, ptasks, ti, ri, best, best_score, best_dist, out,
                   nread, repeat>>

\* add_task, lines 165-172, on a body of InvalidInputs: d["title"] raises
\* KeyError, float() and int() raise ValueError; no handler catches it, so
\* Flask answers 500 and nothing after line 172 runs
AddTaskInvalid(p, d) ==
    /\ pc[p] = "idle"
    /\ \/ {"title", "lat", "lon", "urgency"} \ DOMAIN d # {}
       \/ \E f \in {"lat", "lon", "urgency"} \cap DOMAIN d : d[f] \notin NumericText
    /\ pc' = [pc EXCEPT ![p] = "crash"]
    /\ UNCHANGED <<capacity, tasks, assigns, ptasks, ti, ri, best, best_score, best_dist, out,
                   nread, repeat>>

\* greedy_scheduler, lines 87-94: read the pending tasks and the resources,
\* sort, and enter the loop (or fall through to the return when it is empty)
ReadTasks(p) ==
    /\ out' = [out EXCEPT ![p] = <<>>]
    /\ LET ts == SortedByUrgency(PendingIds) IN
         IF ts = <<>>
         THEN /\ pc' = [pc EXCEPT ![p] = "return"]
              /\ NoLocals(p)
              /\ UNCHANGED ptasks
         ELSE /\ pc' = [pc EXCEPT ![p] = "scan"]
              /\ ptasks' = [ptasks EXCEPT ![p] = ts]
              /\ StartTask(p, 1)
    /\ nread' = Len(tasks)
    /\ repeat' = [repeat EXCEPT ![p] = (nread = Len(tasks))]
    /\ UNCHANGED <<capacity, tasks, assigns>>

\* add_task, line 176: the pass of an add-task request starts
Query(p) ==
    /\ pc[p] = "query"
    /\ ReadTasks(p)

\* run_scheduler, line 182: the request starts its pass (it touches the
\* store first at the query of line 87)
RunScheduler(p) ==
    /\ pc[p] = "idle"
    /\ ReadTasks(p)

\* line 96: the resource loop moves to the next resource, or ends
ScanNext(p) ==
    IF ri[p] < NumRes
    THEN /\ ri' = [ri EXCEPT ![p] = ri[p] + 1]
         /\ UNCHANGED pc
    ELSE /\ ri' = [ri EXCEPT ![p] = 0]
         /\ pc' = [pc EXCEPT ![p] = "commit"]

\* greedy_scheduler, lines 96-107: one iteration of the resource loop
Scan(p) ==
    /\ pc[p] = "scan"
    /\ LET r == ri[p]
           t == tasks[ptasks[p][ti[p]]]
           load == current_load(r)
           d == haversine(t.loc, r)
           score == Score(t.urgency, d, load, capacity[r])
       IN IF AtLimit(load, capacity[r])
          THEN /\ UNCHANGED <<best, best_score, best_dist>>
               /\ ScanNext(p)
          ELSE IF capacity[r] = 0
               THEN \* load/r.capacity raises ZeroDivisionError: the request fails
                    /\ pc' = [pc EXCEPT ![p] = "error"]
                    /\ UNCHANGED <<ri, best, best_score, best_dist>>
               ELSE /\ IF ScoreGt(score, best_score[p])
                       THEN /\ best_score' = [best_score EXCEPT ![p] = score]
                            /\ best' = [best EXCEPT ![p] = r]
                            /\ best_dist' = [best_dist EXCEPT ![p] = d]
                       ELSE UNCHANGED <<best, best_score, best_dist>>
                    /\ ScanNext(p)
    /\ UNCHANGED <<capacity, tasks, assigns, ptasks, ti, out, nread, repeat>>

\* greedy_scheduler, lines 109-116 and the loop's step to the next task
Commit(p) ==
    /\ pc[p] = "commit"
    /\ LET t == ptasks[p][ti[p]] IN
         IF best[p] # 0
         THEN LET eta == Eta(best_dist[p]) IN
              /\ assigns' = AddAssignment(assigns,
                     [task_id |-> t, resource_id |-> best[p], eta_minutes |-> eta])
              /\ tasks' = MarkAssigned(tasks, t)
              /\ out' = [out EXCEPT ![p] = Append(out[p], OutEntry(t, best[p], eta))]
         ELSE UNCHANGED <<tasks, assigns, out>>
    /\ IF ti[p] < Len(ptasks[p])
       THEN /\ pc' = [pc EXCEPT ![p] = "scan"]
            /\ StartTask(p, ti[p] + 1)
       ELSE /\ pc' = [pc EXCEPT ![p] = "return"]
            /\ NoLocals(p)
    /\ UNCHANGED <<capacity, ptasks, nread, repeat>>

\* a failed commit that leaves the inserted row behind
FailedWriteKeepsRow(a, row) == Append(a, row)

\* line 114 raising: the session's transaction is rolled back, nothing of
\* the task's two writes reaches the store
FailedWrite(a, row) == a

\* greedy_scheduler, lines 109-114, when db.session.commit() raises: nothing
\* catches the exception, so the pass ends there and the request fails
CommitFail(p) ==
    /\ pc[p] = "commit"
    /\ best[p] # 0
    /\ assigns' = FailedWrite(assigns,
           [task_id |-> ptasks[p][ti[p]], resource_id |-> best[p],
            eta_minutes |-> Eta(best_dist[p])])
    /\ pc' = [pc EXCEPT ![p] = "storage_error"]
    /\ nread' = -1
    /\ UNCHANGED <<capacity, tasks, ptasks, ti, ri, best, best_score, best_dist, out, repeat>>

\* line 118 and the handler's response (line 178 or 183); a request that
\* raised ends too, with Flask's error response
Return(p) ==
    /\ pc[p] \in {"return", "error", "storage_error", "crash"}
    /\ pc' = [pc EXCEPT ![p] = "idle"]
    /\ out' = [out EXCEPT ![p] = <<>>]
    /\ repeat' = [repeat EXCEPT ![p] = FALSE]
    /\ ptasks' = [ptasks EXCEPT ![p] = <<>>]
    /\ NoLocals(p)
    /\ UNCHANGED <<capacity, tasks, assigns, nread>>

\* a pass is between its query and its last commit
InPass(p) == pc[p] \in {"scan", "commit"}

\* the query of a pass that starts only when no other pass is running
QuerySeq(p) ==
    /\ \A q \in Procs \ {p} : ~InPass(q)
    /\ Query(p)

\* run_scheduler, starting its pass only when no other pass is running
RunSchedulerSeq(p) ==
    /\ \A q \in Procs \ {p} : ~InPass(q)
    /\ RunScheduler(p)

Next ==
    \/ \E p \in Procs, d \in TaskInputs : AddTask(p, d.urgency, d.loc)
    \/ \E p \in Procs, d \in InvalidInputs : AddTaskInvalid(p, d)
    \/ \E p \in Procs : RunScheduler(p)
    \/ \E p \in Procs : Query(p)
    \/ \E p \in Procs : Scan(p)
    \/ \E p \in Procs : Commit(p)
    \/ \E p \in Procs : CommitFail(p)
    \/ \E p \in Procs : Return(p)

NextSeq ==
    \/ \E p \in Procs, d \in TaskInputs : AddTask(p, d.urgency, d.loc)
    \/ \E p \in Procs, d \in InvalidInputs : AddTaskInvalid(p, d)
    \/ \E p \in Procs : RunSchedulerSeq(p)
    \/ \E p \in Procs : QuerySeq(p)
    \/ \E p \in Procs : Scan(p)
    \/ \E p \in Procs : Commit(p)
    \/ \E p \in Procs : CommitFail(p)
    \/ \E p \in Procs : Return(p)

\* requests interleave freely, as in the code
Spec == Init /\ [][Next]_vars
\* scheduling passes do not overlap
SpecSeq == Init /\ [][NextSeq]_vars

\* ------------------------------------------------------------ properties
\* the number of Assignment rows of a that reference resource r
LoadIn(a, r) == Cardinality({i \in 1..Len(a) : a[i].resource_id = r})
ActiveLoad(r) == LoadIn(assigns, r)
AssignmentsOf(t) == {i \in 1..Len(assigns) : assigns[i].task_id = t}
AllAtLimit == \A r \in Resources : ActiveLoad(r) >= capacity[r]
\* handler p takes the step that ends the processing of its current task
CommitStep(p) == pc[p] = "commit" /\ pc'[p] # "commit"
\* handler p takes the step that reads the pending tasks
QueryStep(p) == pc[p] \in {"idle", "query"} /\ pc'[p] \in {"scan", "return"}
RECURSIVE FreeSlotsUpTo(_)
FreeSlotsUpTo(n) ==
    IF n = 0 THEN 0
    ELSE FreeSlotsUpTo(n - 1)
         + (IF capacity[n] > ActiveLoad(n) THEN capacity[n] - ActiveLoad(n) ELSE 0)
FreeSlots == FreeSlotsUpTo(NumRes)

\* C1: when passes do not overlap, no resource ever holds more Assignment
\* rows than its capacity, and every Assignment is created while the load of
\* its resource, before the new row, is strictly below the capacity.
C1_CapacityInvariant ==
    /\ [](\A r \in Resources : ActiveLoad(r) <= capacity[r])
    /\ [][Len(assigns') > Len(assigns) =>
            LET row == assigns'[Len(assigns')] IN
              LoadIn(assigns, row.resource_id) < capacity[row.resource_id]]_vars

\* a pass with a task still to process has just filled a resource
C1_Witness ==
    \E p \in Procs :
      /\ pc[p] = "scan" /\ ti[p] = 2 /\ Len(out[p]) = 1
      /\ ActiveLoad(out[p][1].resource) = capacity[out[p][1].resource]

\* C2: also when passes overlap, no resource ever holds more Assignment rows
\* than its capacity.
C2_CapacityUnderOverlap == \A r \in Resources : LoadIn(assigns, r) <= capacity[r]

\* C3: no task ever has more than one Assignment row, over any interleaving
\* of add-task and schedule requests.
C3_AssignedOnce == \A t \in 1..Len(tasks) : Cardinality(AssignmentsOf(t)) <= 1

\* C4: whenever the processing of a task ends while some resource is below
\* its capacity, an Assignment of that task to a resource below its capacity
\* is created and the task becomes assigned, whatever its urgency and location.
C4_FeasibleIsAssigned ==
    [][\A p \in Procs :
         (CommitStep(p) /\ ~AllAtLimit) =>
            /\ Len(assigns') = Len(assigns) + 1
            /\ LET row == assigns'[Len(assigns')] IN
                 /\ row.task_id = ptasks[p][ti[p]]
                 /\ LoadIn(assigns, row.resource_id) < capacity[row.resource_id]
                 /\ tasks'[row.task_id].status = "assigned"]_vars

\* C5: a pass processes its tasks in order of urgency descending (no task is
\* committed while a task of strictly higher urgency of the same pass is
\* still to come), and when exactly one slot is free at the start of the
\* pass and a lower-urgency task is pending too, the first (highest-urgency)
\* task receives the slot.
C5_UrgencyPrecedence ==
    [][\A p \in Procs :
         CommitStep(p) =>
            /\ \A j \in 1..Len(ptasks[p]) :
                 tasks[ptasks[p][j]].urgency > tasks[ptasks[p][ti[p]]].urgency => j < ti[p]
            /\ ( /\ ti[p] = 1
                 /\ FreeSlots = 1
                 /\ \E j \in 2..Len(ptasks[p]) :
                      tasks[ptasks[p][j]].urgency < tasks[ptasks[p][1]].urgency )
               => tasks'[ptasks[p][1]].status = "assigned"]_vars

\* C6: when the processing of a task ends while every resource is at its
\* capacity, nothing is raised, no Assignment is created, no status changes,
\* the returned list gets no entry, and the pass moves on to the next task
\* (each task is in the pass once) or returns.
C6_Deferred ==
    [][\A p \in Procs :
         (CommitStep(p) /\ AllAtLimit) =>
            /\ tasks' = tasks /\ assigns' = assigns /\ out'[p] = out[p]
            /\ \A i, j \in 1..Len(ptasks[p]) : ptasks[p][i] = ptasks[p][j] => i = j
            /\ ptasks'[p] = ptasks[p]
            /\ IF ti[p] < Len(ptasks[p])
               THEN pc'[p] = "scan" /\ ti'[p] = ti[p] + 1
               ELSE pc'[p] = "return"]_vars

\* a pass of two tasks gave the first the last free slot and deferred the second
C6_Witness ==
    \E p \in Procs :
      /\ pc[p] = "return" /\ Len(ptasks[p]) = 2 /\ Len(out[p]) = 1
      /\ tasks[ptasks[p][2]].status = "pending"
      /\ tasks[ptasks[p][2]].urgency > 0
      /\ AllAtLimit

\* C7: a pass whose query finds no pending task ends at once, returns the
\* empty list and leaves the store as it is.
C7_EmptyPass ==
    [][\A p \in Procs :
         (QueryStep(p) /\ \A i \in 1..Len(tasks) : tasks[i].status # "pending") =>
            /\ pc'[p] = "return"
            /\ out'[p] = <<>> /\ ptasks'[p] = <<>>
            /\ UNCHANGED store]_vars

\* a pass found tasks and assignments in the store but nothing pending
C7_Witness ==
    \E p \in Procs :
      /\ pc[p] = "return" /\ ptasks[p] = <<>> /\ out[p] = <<>>
      /\ Len(tasks) > 0 /\ Len(assigns) > 0

\* C8: a pass that reads no task its completed predecessor had not read
\* creates no Assignment, changes no status and returns the empty list; and
\* the task a pass is processing is never one that is already assigned
\* (passes not overlapping).
C8_RepeatedPass ==
    /\ [](\A p \in Procs : InPass(p) => tasks[ptasks[p][ti[p]]].status = "pending")
    /\ [][\A p \in Procs :
            (repeat[p] /\ CommitStep(p)) =>
               tasks' = tasks /\ assigns' = assigns /\ out'[p] = <<>>]_vars

\* a repeated pass went over deferred tasks after an earlier pass had assigned one
C8_Witness ==
    \E p \in Procs :
      /\ repeat[p] /\ pc[p] = "return"
      /\ ptasks[p] # <<>> /\ out[p] = <<>>
      /\ Len(assigns) > 0

\* C9: no Assignment references a resource of capacity 0, no such resource
\* is ever the best candidate, and no request fails on the division by the
\* capacity.
C9_ZeroCapacityNeverSelected ==
    /\ \A i \in 1..Len(assigns) : capacity[assigns[i].resource_id] > 0
    /\ \A p \in Procs : pc[p] # "error" /\ (best[p] # 0 => capacity[best[p]] > 0)

\* a pass completed an assignment although the first resource has capacity 0
C9_Witness ==
    \E p \in Procs :
      /\ pc[p] = "return" /\ out[p] # <<>>
      /\ capacity[1] = 0

\* C10: the Assignment table only grows by appending, so no load ever
\* decreases, and a resource at its capacity gets no further Assignment
\* (passes not overlapping).
C10_MonotonicLoad ==
    [][/\ Len(assigns') >= Len(assigns)
       /\ SubSeq(assigns', 1, Len(assigns)) = assigns
       /\ \A r \in Resources :
            /\ LoadIn(assigns', r) >= LoadIn(assigns, r)
            /\ LoadIn(assigns, r) >= capacity[r] => LoadIn(assigns', r) = LoadIn(assigns, r)]_vars

\* a later pass assigned a task elsewhere after an earlier pass had filled a resource
C10_Witness ==
    \E p \in Procs :
      /\ pc[p] = "return" /\ Len(out[p]) = 1
      /\ Len(assigns) = 2
      /\ assigns[1].task_id \notin {ptasks[p][i] : i \in 1..Len(ptasks[p])}
      /\ capacity[assigns[1].resource_id] = 1
      /\ out[p][1].resource # assigns[1].resource_id

\* C11: when the commit of the k-th task of a pass fails, the request fails
\* with the store as it was: the tasks the pass assigned before keep their
\* Assignment and their status, the k-th and the later tasks are pending
\* without an Assignment, and the failed request does nothing more (passes
\* not overlapping).
C11_PartialProgress ==
    [][\A p \in Procs :
         /\ (pc[p] = "commit" /\ pc'[p] = "storage_error") =>
               /\ UNCHANGED store
               /\ out'[p] = out[p]
               /\ \A k \in 1..Len(out[p]) :
                    /\ tasks'[out[p][k].task].status = "assigned"
                    /\ \E i \in 1..Len(assigns') :
                         /\ assigns'[i].task_id = out[p][k].task
                         /\ assigns'[i].resource_id = out[p][k].resource
               /\ \A j \in ti[p]..Len(ptasks[p]) :
                    /\ tasks'[ptasks[p][j]].status = "pending"
                    /\ \A i \in 1..Len(assigns') : assigns'[i].task_id # ptasks[p][j]
         /\ pc[p] = "storage_error" =>
               /\ pc'[p] \in {"storage_error", "idle"}
               /\ out'[p] = out[p] \/ pc'[p] = "idle"]_vars

\* the commit of the second task of a pass failed after the first was committed
C11_Witness ==
    \E p \in Procs :
      /\ pc[p] = "storage_error" /\ ti[p] = 2 /\ Len(out[p]) = 1
      /\ tasks[ptasks[p][2]].status = "pending"
      /\ tasks[ptasks[p][1]].status = "assigned"

\* C12: an add-task request whose body lacks a required field or holds a
\* non-numeric one is answered with a 4xx rejection, and writes nothing: no
\* Task, no pass, no Assignment, no status change.
C12_ValidationRejected ==
    [][\A p \in Procs :
         (pc[p] = "idle" /\ pc'[p] \in {"crash", "rejected"}) =>
            /\ pc'[p] = "rejected"
            /\ UNCHANGED store]_vars

\* the tasks of the entries of a returned list are in the order of s
RECURSIVE InOrderOf(_, _)
InOrderOf(o, s) ==
    IF o = <<>> THEN TRUE
    ELSE IF s = <<>> THEN FALSE
    ELSE IF Head(o).task = Head(s) THEN InOrderOf(Tail(o), Tail(s))
    ELSE InOrderOf(o, Tail(s))

\* C13: the list of a pass starts empty and gets an entry exactly when the
\* pass creates an Assignment, naming that row's task, resource and ETA; so
\* its entries are the pass's Assignments in processing order, tasks left
\* pending and earlier Assignments are absent, and its length is the number
\* of Assignments the pass created.
C13_ReturnedList ==
    /\ [](\A p \in Procs : InOrderOf(out[p], ptasks[p]))
    /\ [][\A p \in Procs :
            /\ (pc[p] \in {"idle", "query"} /\ pc'[p] \in {"scan", "return"}) => out'[p] = <<>>
            /\ (pc[p] = "commit" /\ pc'[p] # "commit") =>
                  IF Len(assigns') > Len(assigns)
                  THEN LET row == assigns'[Len(assigns')] IN
                         /\ Len(assigns') = Len(assigns) + 1
                         /\ row.task_id = ptasks[p][ti[p]]
                         /\ out'[p] = Append(out[p], [task |-> row.task_id,
                                                     resource |-> row.resource_id,
                                                     eta |-> row.eta_minutes])
                  ELSE out'[p] = out[p]
            /\ pc[p] \in {"scan", "return"} => (out'[p] = out[p] \/ pc'[p] = "idle")]_vars

\* a pass returns two entries, for two different resources
C13_Witness ==
    \E p \in Procs :
      /\ pc[p] = "return" /\ Len(out[p]) = 2
      /\ out[p][1].resource # out[p][2].resource

\* C15: between any two commits a task is assigned exactly when some
\* Assignment references it, and the Assignments a pass has committed are
\* counted in the loads its later tasks are tested against.
C15_CommittedTogether ==
    /\ \A t \in 1..Len(tasks) :
         tasks[t].status = "assigned" <=> AssignmentsOf(t) # {}
    /\ \A p \in Procs : \A r \in Resources :
         pc[p] \in {"scan", "commit"} =>
            current_load(r) >= Cardinality({k \in 1..Len(out[p]) : out[p][k].resource = r})

\* a pass is at its second task with the first one's assignment committed,
\* while the other handler's commit has failed
C15_Witness ==
    \E p, q \in Procs :
      /\ pc[p] = "scan" /\ ti[p] = 2 /\ Len(out[p]) = 1
      /\ tasks[out[p][1].task].status = "assigned"
      /\ pc[q] = "storage_error"

\* the resources below their capacity, and the score line 102 gives resource x for task t
Feasible == {x \in Resources : ActiveLoad(x) < capacity[x]}
ScoreOf(t, x) ==
    Score(tasks[t].urgency, haversine(tasks[t].loc, x), ActiveLoad(x), capacity[x])

\* C16: the Assignment a pass creates for a task references a resource below
\* its capacity whose score is the greatest among the resources below their
\* capacity, and every such resource earlier in store order has a strictly
\* smaller score: on equal scores the first one is kept (passes not
\* overlapping).
C16_TieBreaking ==
    [][\A p \in Procs :
         (CommitStep(p) /\ Len(assigns') > Len(assigns)) =>
            LET row == assigns'[Len(assigns')]
                t == row.task_id
                r == row.resource_id
            IN /\ t = ptasks[p][ti[p]]
               /\ r \in Feasible
               /\ \A x \in Feasible :
                    /\ ScoreOf(t, x)[1] * ScoreOf(t, r)[2] <= ScoreOf(t, r)[1] * ScoreOf(t, x)[2]
                    /\ x < r => ScoreOf(t, x)[1] * ScoreOf(t, r)[2] < ScoreOf(t, r)[1] * ScoreOf(t, x)[2]]_vars

\* the only Assignment went to resource 1 although resource 2, free as well,
\* had the same score for the task
C16_Witness ==
    /\ Len(assigns) = 1
    /\ assigns[1].resource_id = 1
    /\ tasks[assigns[1].task_id].urgency = HugeUrgency
    /\ capacity[2] > 0
    /\ \E p \in Procs : pc[p] = "return" /\ Len(out[p]) = 1

\* C17: a pass processes tasks of equal urgency in creation order, and when
\* exactly one slot is free at the start of the pass and a task of the same
\* urgency as the first one is pending too, the first (earlier created) task
\* is assigned and the later one stays pending.
C17_StableOrdering ==
    [][\A p \in Procs :
         (CommitStep(p) /\ pc'[p] # "storage_error") =>
            /\ \A i, j \in 1..Len(ptasks[p]) :
                 ( /\ i < j
                   /\ tasks[ptasks[p][i]].urgency = tasks[ptasks[p][j]].urgency )
                 => ptasks[p][i] < ptasks[p][j]
            /\ ( /\ ti[p] = 1
                 /\ FreeSlots = 1
                 /\ \E j \in 2..Len(ptasks[p]) :
                      tasks[ptasks[p][j]].urgency = tasks[ptasks[p][1]].urgency )
               => /\ tasks'[ptasks[p][1]].status = "assigned"
                  /\ \A j \in 2..Len(ptasks[p]) : tasks'[ptasks[p][j]].status = "pending"]_vars

\* resources x and y carry the same load/capacity ratio
SameRatio(x, y) == ActiveLoad(x) * capacity[y] = ActiveLoad(y) * capacity[x]

\* C18: for the task a pass is committing, of two resources below their
\* capacity with the same load/capacity ratio the one at strictly smaller
\* distance has the strictly higher score, and the Assignment created does not
\* reference a resource while a closer one with the same ratio is below its
\* capacity (passes not overlapping).
C18_DistancePenalty ==
    [][\A p \in Procs :
         (CommitStep(p) /\ Len(assigns') > Len(assigns)) =>
            LET row == assigns'[Len(assigns')]
                t == row.task_id
                dist(x) == haversine(tasks[t].loc, x)
            IN /\ \A x, y \in Feasible :
                    (SameRatio(x, y) /\ dist(x) < dist(y)) =>
                       ScoreOf(t, x)[1] * ScoreOf(t, y)[2] > ScoreOf(t, y)[1] * ScoreOf(t, x)[2]
               /\ \A x \in Feasible :
                    SameRatio(x, row.resource_id) => dist(x) >= dist(row.resource_id)]_vars

\* C19: every Assignment stores floor(d/30*60)+5 for the distance d between
\* its task and the resource it references, which is at least 5 minutes.
C19_StoredEta ==
    \A i \in 1..Len(assigns) :
       /\ assigns[i].eta_minutes
             = (2 * haversine(tasks[assigns[i].task_id].loc, assigns[i].resource_id)) \div 100 + 5
       /\ assigns[i].eta_minutes >= 5

\* a task was assigned to resource 2 while resource 1 was full and resource 3,
\* iterated last, was free: each of the three distances gives another ETA
C19_Witness ==
    /\ Len(assigns) = 2
    /\ assigns[1].resource_id = 1 /\ capacity[1] = 1
    /\ assigns[2].resource_id = 2 /\ capacity[3] > 0
    /\ tasks[assigns[2].task_id].loc = 1
    /\ assigns[2].eta_minutes = 6

\* C20: when a pass returns and leaves no request in progress (passes not
\* overlapping), a task is pending only if every resource is at its capacity.
C20_WorkConservation ==
    [][\A p \in Procs :
         ( /\ pc[p] = "return" /\ pc'[p] = "idle"
           /\ \A q \in Procs \ {p} : pc[q] = "idle" )
         => ( (\E t \in 1..Len(tasks') : tasks'[t].status = "pending")
              => \A r \in Resources : LoadIn(assigns', r) >= capacity[r] )]_vars

====
